---- MODULE Spec2Model ----
(***************************************************************************)
(* State-machine model of snapraid-runner.py: main() -> load_config() ->   *)
(* setup_logger() -> run() -> snapraid_command() / tee_log() -> finish().  *)
(*                                                                         *)
(* Text is modelled as a sequence of atoms.  An atom is either a word      *)
(* without white space ("add", "x", ...) or one white-space character      *)
(* ("SP" blank, "TAB" tabulator, "CR" carriage return).                    *)
(* Python exceptions are modelled by their class name; sys.exit() raises   *)
(* SystemExit, which unwinds through the enclosing try statements like    *)
(* every other exception.                                                  *)
(*                                                                         *)
(* Spec and FairSpec are the runs of the program from main().  TeeSpec,    *)
(* ClassifySpec, EmailSpec and DrainSpec apply the same actions to single  *)
(* functions (tee_thread, the diff counts, send_email, the drain of a      *)
(* subprocess on bounded pipes), starting inside a run with richer inputs. *)
(***************************************************************************)
EXTENDS Integers, Sequences, FiniteSets, TLC

VARIABLES
    pc,           \* position of the main thread
    args,         \* parsed command line (args.scrub)
    conf_file,    \* the configuration file on disk (raw option values)
    config,       \* the global config, as load_config leaves it
    call,         \* arguments of the running snapraid_command call
    p,            \* the subprocess: its pipes, its script, its stdout; None before Popen
    threads,      \* state of the two tee threads of the running call
    out,          \* accumulators: out.stdout is `out`, out.stderr the discarded list
    logged,       \* the lines the tee threads of the running call logged, per stream
    ret,          \* value of p.wait() in the running call, None before
    diff_out,     \* run(): lines returned by the diff command
    diff_results, \* run(): the four counts computed from diff_out
    result,       \* what the last snapraid_command call returned or raised
    fin,          \* the running finish() call: its argument and its call site
    finish_calls, \* history: the arguments of every finish() call, in order
    emails,       \* history: outcome of every send_email attempt
    banner,       \* history: the closing banners finish() logged
    email_log,    \* text collected by the email log handler (email_log.getvalue())
    body,         \* send_email(): the body of the message, None before
    calls,        \* history: one record per snapraid_command call
    fatal,        \* history: the fatal conditions that occurred in run()
    started,      \* history: main() has called run()
    exit_status   \* process exit status, None while running

vars == <<pc, args, conf_file, config, call, p, threads, out, logged, ret, result,
          diff_out, diff_results, fin, finish_calls, emails, banner, body, email_log, body,
          calls, fatal, started, exit_status>>

----------------------------------------------------------------------------
(* Bounds of the model *)

\* longest stdout of one subprocess, in lines
MaxLines == 2

\* capacity of a pipe between a subprocess and its tee thread, in lines
PipeCap == 1

----------------------------------------------------------------------------
(* Text helpers *)

Whitespace == {"SP", "TAB", "CR"}

RECURSIVE LStrip(_)
LStrip(s) == IF s # <<>> /\ Head(s) \in Whitespace THEN LStrip(Tail(s)) ELSE s

RECURSIVE RStrip(_)
RStrip(s) ==
    IF s # <<>> /\ s[Len(s)] \in Whitespace
    THEN RStrip(SubSeq(s, 1, Len(s) - 1))
    ELSE s

\* str.strip()
Strip(s) == RStrip(LStrip(s))

Contains(s, a) == \E i \in 1..Len(s) : s[i] = a

\* s.split(sep)[-1]: the text after the last sep
SplitLast(s, sep) ==
    IF Contains(s, sep)
    THEN LET i == CHOOSE k \in 1..Len(s) : s[k] = sep /\ \A j \in (k+1)..Len(s) : s[j] # sep
         IN  SubSeq(s, i + 1, Len(s))
    ELSE s

\* s.split(sep)[0]: the text before the first sep
SplitFirst(s, sep) ==
    IF Contains(s, sep)
    THEN LET i == CHOOSE k \in 1..Len(s) : s[k] = sep /\ \A j \in 1..(k-1) : s[j] # sep
         IN  SubSeq(s, 1, i - 1)
    ELSE s

----------------------------------------------------------------------------
(* Optional values: None is Python's None, Some(x) a value that is set *)

None == <<>>
Some(x) == <<x>>
Val(o) == o[1]

----------------------------------------------------------------------------
(* Inputs: command line, configuration file, subprocess behaviour *)

\* args.scrub: "None" without the flag, "False" with --no-scrub (store_false)
ScrubArgs == {"None", "False"}

\* raw text of the integer option deletethreshold; "" is an absent option
\* (config sections are defaultdict(lambda: ""))
RawThresholds == {"", "-1", "0", "1"}

\* raw text of the boolean options
RawBools == {"false", "True"}

\* raw text of email.sendon, as atoms
RawSendon == {<<>>, <<"error">>, <<"success">>, <<"success", ",", "error">>}

\* raw text of email.maxsize, in KiB; "" is an absent option
RawMaxsizes == {"", "0", "1", "2"}

\* the configuration files of the runs; the text of the log is not followed in
\* the runs, so that email.maxsize is left out of them
ConfigFiles ==
    [deletethreshold : RawThresholds, touch : RawBools, enabled : RawBools,
     sendon : RawSendon, maxsize : {""}]

\* exit statuses of a subprocess
ExitStatuses == {0, 3}

\* outcomes of subprocess.Popen: started, or the exception it raises
LaunchOutcomes == {"ok", "FileNotFoundError", "PermissionError"}

\* raw stdout lines of the diff subprocess (before tee_thread cleans them)
DiffLines ==
    { <<"add", "SP", "x">>,
      <<"remove", "SP", "x">>,
      <<"x", "SP", "x">>,
      <<"x", "CR", "remove", "SP", "x", "SP">> }

RECURSIVE SeqsUpTo(_, _)
SeqsUpTo(S, n) ==
    IF n = 0 THEN {<<>>}
    ELSE LET shorter == SeqsUpTo(S, n - 1)
         IN  shorter \cup {Append(s, x) : s \in {t \in shorter : Len(t) = n - 1}, x \in S}

DiffOutputs == SeqsUpTo(DiffLines, MaxLines)

\* stdout of the other subprocesses, and stderr of every subprocess
OtherOutputs == {<<>>, << <<"x">> >>}

Outputs(command) == IF command = "diff" THEN DiffOutputs ELSE OtherOutputs

Streams == {"stdout", "stderr"}

----------------------------------------------------------------------------
(* load_config: conversions of the raw option values *)

\* int(s) for the raw texts of the model; raises ValueError outside DOMAIN
IntLiterals ==
    [s \in {"-1", "0", "1", "2"} |->
        CASE s = "-1" -> -1 [] s = "0" -> 0 [] s = "1" -> 1 [] s = "2" -> 2]

\* try: int(v) except ValueError: 0
IntOption(raw) == IF raw \in DOMAIN IntLiterals THEN IntLiterals[raw] ELSE 0

\* str.lower()
Lower(s) == IF s = "True" THEN "true" ELSE s

BoolOption(raw) == Lower(raw) = "true"

\* load_config without lines 175-176: the --no-scrub flag is not applied
ScrubEnabled_IgnoresFlag(raw, scrub_arg) == BoolOption(raw)

\* if args.scrub is not None: config["scrub"]["enabled"] = args.scrub
ScrubEnabled(raw, scrub_arg) ==
    IF scrub_arg # "None" THEN FALSE ELSE BoolOption(raw)

load_config(file, a) ==
    [loaded          |-> TRUE,
     deletethreshold |-> IntOption(file.deletethreshold),
     touch           |-> BoolOption(file.touch),
     enabled         |-> ScrubEnabled(file.enabled, a.scrub),
     sendon          |-> file.sendon,
     maxsize         |-> IntOption(file.maxsize)]

NoConfig ==
    [loaded |-> FALSE, deletethreshold |-> 0, touch |-> FALSE, enabled |-> FALSE,
     sendon |-> <<>>, maxsize |-> 0]

NoFile ==
    [deletethreshold |-> "", touch |-> "", enabled |-> "", sendon |-> <<>>, maxsize |-> ""]

----------------------------------------------------------------------------
(* tee_thread: cleaning of one line *)

\* line = line.decode().strip(); if "\r" in line: line = line.split("\r")[-1]
TeeAppended(raw) ==
    LET line == Strip(raw)
    IN  IF Contains(line, "CR") THEN SplitLast(line, "CR") ELSE line

\* logging.log(log_level, line.strip())
TeeLogged(raw) == Strip(TeeAppended(raw))

\* the lines as a tee thread appends them
Cleaned(lines) == [i \in 1..Len(lines) |-> TeeAppended(lines[i])]

\* the lines as a tee thread logs them
Logged(lines) == [i \in 1..Len(lines) |-> TeeLogged(lines[i])]

----------------------------------------------------------------------------
(* run(): the diff counts *)

Categories == {"add", "remove", "move", "update"}

\* the token taken to be the whole line: split(" ")[0] left out
FirstToken_Whole(line) == line

\* line.split(" ")[0]
FirstToken(line) == SplitFirst(line, "SP")

\* Counter(...)[cat]
RECURSIVE Count(_, _)
Count(lines, cat) ==
    IF lines = <<>> THEN 0
    ELSE (IF FirstToken(Head(lines)) = <<cat>> THEN 1 ELSE 0) + Count(Tail(lines), cat)

Classify(lines) == [cat \in Categories |-> Count(lines, cat)]

\* the gate written with 0 < threshold: a threshold of 0 never aborts
GateAborts_Positive(threshold, counts) == 0 < threshold /\ threshold < counts["remove"]

\* 0 <= config["snapraid"]["deletethreshold"] < diff_results["remove"]
GateAborts(threshold, counts) == 0 <= threshold /\ threshold < counts["remove"]

\* the test of line 286 inverted: sync when the counts are all zero
NoChanges_Inverted(counts) ==
    counts["remove"] + counts["add"] + counts["move"] + counts["update"] # 0

\* the sum written without the add count
NoChanges_WithoutAdd(counts) ==
    counts["remove"] + counts["move"] + counts["update"] = 0

\* remove + add + move + update == 0
NoChanges(counts) ==
    counts["remove"] + counts["add"] + counts["move"] + counts["update"] = 0

----------------------------------------------------------------------------
(* Exceptions and the try statements they unwind through *)

\* subclasses of Exception; SystemExit derives from BaseException only
ExceptionClasses ==
    {"CalledProcessError", "FileNotFoundError", "PermissionError", "SMTPException"}

\* main's clause written as a bare except, which catches SystemExit too
Handles_BareExcept(h, type) ==
    CASE h = "launch" -> type = "FileNotFoundError"
      [] h = "sync"   -> type = "CalledProcessError"
      [] h = "scrub"  -> type = "CalledProcessError"
      [] h = "main"   -> TRUE

\* main's clause written for CalledProcessError only: no catch-all
Handles_NoCatchAll(h, type) ==
    CASE h = "launch" -> type = "FileNotFoundError"
      [] h = "sync"   -> type = "CalledProcessError"
      [] h = "scrub"  -> type = "CalledProcessError"
      [] h = "main"   -> type = "CalledProcessError"

\* does the except clause of try statement h catch an exception of class type
Handles(h, type) ==
    CASE h = "launch" -> type = "FileNotFoundError"
      [] h = "sync"   -> type = "CalledProcessError"
      [] h = "scrub"  -> type = "CalledProcessError"
      [] h = "main"   -> type \in ExceptionClasses

\* the try statements around the call of snapraid_command(command), innermost first
CallerStack(command) ==
    CASE command = "sync"  -> <<"sync", "main">>
      [] command = "scrub" -> <<"scrub", "main">>
      [] OTHER             -> <<"main">>

\* the try statements around a site of the program, innermost first
HandlerStack(site, command) ==
    CASE site = "popen"         -> <<"launch">> \o CallerStack(command)
      [] site = "launch_except" -> CallerStack(command)
      [] site = "check_ret"     -> CallerStack(command)
      [] site = "run"           -> <<"main">>
      [] site = "sync_except"   -> <<"main">>
      [] site = "scrub_except"  -> <<"main">>
      [] site = "main_except"   -> <<>>

\* position of the except clause of try statement h
HandlerPc(h) ==
    CASE h = "launch" -> "launch_except"
      [] h = "sync"   -> "sync_except"
      [] h = "scrub"  -> "scrub_except"
      [] h = "main"   -> "main_except"

\* where an exception of class type raised under stack continues: the first except
\* clause that catches it, or "exited" when it leaves the program
RECURSIVE Unwind(_, _)
Unwind(stack, type) ==
    IF stack = <<>> THEN "exited"
    ELSE IF Handles(Head(stack), type) THEN HandlerPc(Head(stack))
    ELSE Unwind(Tail(stack), type)

\* raise an exception of class type at site; code is the status the interpreter
\* exits with if nothing catches it (SystemExit: its code; a traceback: 1)
Raise(site, type, code) ==
    LET target == Unwind(HandlerStack(site, call.command), type)
    IN  /\ pc' = target
        /\ exit_status' = IF target = "exited" THEN Some(code) ELSE exit_status

----------------------------------------------------------------------------
(* State *)

NoCall == [command |-> "", ignore_errors |-> FALSE]
NoFin == [is_success |-> FALSE, site |-> ""]
NoResult == [kind |-> "none", lines |-> <<>>, returncode |-> 0, cmd |-> <<>>]

Init ==
    /\ pc = "main"
    /\ args \in [scrub : ScrubArgs]
    /\ conf_file = NoFile
    /\ config = NoConfig
    /\ call = NoCall
    /\ p = None
    /\ threads = [s \in Streams |-> "none"]
    /\ out = [s \in Streams |-> <<>>]
    /\ logged = [s \in Streams |-> <<>>]
    /\ ret = None
    /\ result = NoResult
    /\ diff_out = None
    /\ diff_results = None
    /\ fin = NoFin
    /\ finish_calls = <<>>
    /\ emails = <<>>
    /\ banner = <<>>
    /\ email_log = <<>>
    /\ body = None
    /\ calls = <<>>
    /\ fatal = {}
    /\ started = FALSE
    /\ exit_status = None

runner_vars == <<call, p, threads, out, logged, ret, result, calls>>
run_vars == <<diff_out, diff_results>>
finish_vars == <<fin, finish_calls, emails, banner, body, body>>
setup_vars == <<args, conf_file, config, started, email_log>>

\* the record of the running call in the history, updated
SetLast(field, value) ==
    [calls EXCEPT ![Len(calls)] = [calls[Len(calls)] EXCEPT ![field] = value]]

----------------------------------------------------------------------------
(* main(): set-up, lines 213-244 *)

\* parse_args; if not os.path.exists(args.conf): sys.exit(2)
main_args ==
    /\ pc = "main"
    /\ \E exists \in BOOLEAN :
          IF exists
          THEN pc' = "load_config" /\ UNCHANGED exit_status
          ELSE pc' = "exited" /\ exit_status' = Some(2)
    /\ UNCHANGED <<setup_vars, runner_vars, run_vars, finish_vars, fatal>>

\* try: load_config(args) except Exception: sys.exit(2)
main_load_config ==
    /\ pc = "load_config"
    /\ \/ \E file \in ConfigFiles :
             /\ conf_file' = file
             /\ config' = load_config(file, args)
             /\ pc' = "setup_logger"
             /\ UNCHANGED exit_status
       \/ /\ pc' = "exited"
          /\ exit_status' = Some(2)
          /\ UNCHANGED <<conf_file, config>>
    /\ UNCHANGED <<args, started, email_log, runner_vars, run_vars, finish_vars, fatal>>

\* try: setup_logger() except Exception: sys.exit(2)
main_setup_logger ==
    /\ pc = "setup_logger"
    /\ \E ok \in BOOLEAN :
          IF ok
          THEN pc' = "run" /\ started' = TRUE /\ UNCHANGED exit_status
          ELSE pc' = "exited" /\ exit_status' = Some(2) /\ UNCHANGED started
    /\ UNCHANGED <<args, conf_file, config, email_log, runner_vars, run_vars, finish_vars,
                   fatal>>

----------------------------------------------------------------------------
(* finish(), lines 132-147, and the calls of it *)

(* send_email(), lines 83-129: the body of the message.  The text of the log is a
   sequence of characters, "NL" the newline and "c" any other character. *)

KiB == 1024

\* a Python index into a sequence of length n: negative indexes count from the
\* end, and slices clamp their indexes to 0..n
PyIndex(i, n) ==
    IF i < 0 THEN (IF n + i < 0 THEN 0 ELSE n + i)
    ELSE (IF i > n THEN n ELSE i)

\* s[start:end]
PySlice(s, start, end) == SubSeq(s, PyIndex(start, Len(s)) + 1, PyIndex(end, Len(s)))

\* s.count(a, start, end)
PyCount(s, a, start, end) ==
    Cardinality({i \in (PyIndex(start, Len(s)) + 1)..PyIndex(end, Len(s)) : s[i] = a})

\* one piece of the body: the introduction, the note of a shortened log, log text
\* (chars), or the marker with the number it states (cut_lines)
Part(kind, chars, cut_lines) == [kind |-> kind, chars |-> chars, cut_lines |-> cut_lines]

\* the log shortened with the count taken over the whole log
ShortenLog_CountAll(log, maxsize) ==
    IF maxsize # 0 /\ Len(log) > maxsize
    THEN <<Part("note", <<>>, 0),
           Part("text", PySlice(log, 0, maxsize \div 2), 0),
           Part("marker", <<>>, PyCount(log, "NL", 0, Len(log))),
           Part("text", PySlice(log, (-maxsize) \div 2, Len(log)), 0)>>
    ELSE <<Part("text", log, 0)>>

\* if maxsize and len(log) > maxsize: cut_lines = log.count("\n", maxsize // 2,
\* -maxsize // 2); log = NOTE + log[:maxsize // 2] + marker + log[-maxsize // 2:]
ShortenLog(log, maxsize) ==
    IF maxsize # 0 /\ Len(log) > maxsize
    THEN <<Part("note", <<>>, 0),
           Part("text", PySlice(log, 0, maxsize \div 2), 0),
           Part("marker", <<>>, PyCount(log, "NL", maxsize \div 2, (-maxsize) \div 2)),
           Part("text", PySlice(log, (-maxsize) \div 2, Len(log)), 0)>>
    ELSE <<Part("text", log, 0)>>

\* body = introduction + log, with maxsize = config['email'].get('maxsize', 500) * 1024
Body(success, log, c) ==
    <<Part(IF success THEN "completed" ELSE "error", <<>>, 0)>>
        \o ShortenLog(log, c.maxsize * KiB)

\* sys.exit(is_success): True exits with 1, False with 0
ExitCode_Swapped(is_success) == IF is_success THEN 1 ELSE 0

\* sys.exit(0 if is_success else 1)
ExitCode(is_success) == IF is_success THEN 0 ELSE 1

\* finish(is_success) called at site
CallFinish(is_success, site) ==
    /\ pc' = "finish"
    /\ fin' = [is_success |-> is_success, site |-> site]

\* finish() testing only that some trigger is configured, as setup_logger does
SendOn_AnyTrigger(sendon, is_success) == sendon # <<>>

\* ("error", "success")[is_success] in config["email"]["sendon"]
SendOn(sendon, is_success) ==
    Contains(sendon, IF is_success THEN "success" ELSE "error")

\* how a call of send_email ends: the mail is sent; the smtp host is empty, which
\* is logged as an error before send_email returns (lines 88-90); or smtplib raises
EmailOutcomes == {"sent", "no_host", "SMTPException"}

\* the outcomes in which send_email raises
EmailRaises(outcome) == outcome \in ExceptionClasses

\* finish() with send_email called outside a try statement
EmailCaught_None(type) == FALSE

\* try: send_email(is_success) except Exception: logging.exception(...)
EmailCaught(type) == type \in ExceptionClasses

\* the closing banner, logged with logging.info or logging.error
Banner(is_success) ==
    IF is_success THEN [level |-> "INFO", text |-> "Run finished successfully."]
    ELSE [level |-> "ERROR", text |-> "Run failed!"]

\* one send_email attempt: its argument, how it ended, and whether an error
\* was logged for it
Email(success, outcome) ==
    [success |-> success, outcome |-> outcome,
     error_logged |-> outcome = "no_host" \/ (EmailRaises(outcome) /\ EmailCaught(outcome))]

finish ==
    /\ pc = "finish"
    /\ finish_calls' = Append(finish_calls, fin.is_success)
    /\ IF SendOn(config.sendon, fin.is_success)
       THEN \E outcome \in EmailOutcomes :
               /\ emails' = Append(emails, Email(fin.is_success, outcome))
               /\ body' = IF outcome = "no_host" THEN body
                          ELSE Some(Body(fin.is_success, email_log, config))
               /\ IF EmailRaises(outcome) /\ ~EmailCaught(outcome)
                  THEN /\ Raise(fin.site, outcome, 1)
                       /\ UNCHANGED banner
                  ELSE /\ banner' = Append(banner, Banner(fin.is_success))
                       /\ Raise(fin.site, "SystemExit", ExitCode(fin.is_success))
       ELSE /\ banner' = Append(banner, Banner(fin.is_success))
            /\ Raise(fin.site, "SystemExit", ExitCode(fin.is_success))
            /\ UNCHANGED <<emails, body>>
    /\ fin' = NoFin
    /\ UNCHANGED <<setup_vars, runner_vars, run_vars, fatal>>

----------------------------------------------------------------------------
(* snapraid_command(), lines 46-80, and tee_log(), lines 25-43 *)

\* snapraid_command(command, ignore_errors=...) is entered
Call(command, ignore_errors) ==
    /\ pc' = "popen"
    /\ call' = [command |-> command, ignore_errors |-> ignore_errors]
    /\ p' = None
    /\ threads' = [s \in Streams |-> "none"]
    /\ out' = [s \in Streams |-> <<>>]
    /\ logged' = [s \in Streams |-> <<>>]
    /\ ret' = None
    /\ result' = NoResult
    /\ calls' = Append(calls, [command |-> command, launched |-> FALSE, ret |-> None,
                               outcome |-> "running"])

\* run() with the scrub block written before the gate and the sync block
Continuation_ScrubFirst(command) ==
    CASE command = "touch" -> "diff"
      [] command = "diff"  -> "scrub_check"
      [] command = "scrub" -> "classify"
      [] command = "sync"  -> "all_done"

\* where run() continues when snapraid_command(command) returns
Continuation(command) ==
    CASE command = "touch" -> "diff"
      [] command = "diff"  -> "classify"
      [] command = "sync"  -> "scrub_check"
      [] command = "scrub" -> "all_done"

\* a subprocess: the unread lines of its two pipes, the lines it still has to
\* write (todo), the streams it has not closed (open), and all of its stdout
Process(so, se, todo, open, wrote) ==
    [stdout |-> so, stderr |-> se, todo |-> todo, open |-> open, wrote |-> wrote]

\* a subprocess whose pipes took all of its output: it has written so and se,
\* closed both streams and exited
Written(so, se) == Process(so, se, <<>>, {}, so)

\* try: p = subprocess.Popen(...) except FileNotFoundError: ...
popen ==
    /\ pc = "popen"
    /\ \E launch \in LaunchOutcomes :
          IF launch = "ok"
          THEN /\ \E so \in Outputs(call.command), se \in OtherOutputs :
                     p' = Some(Written(so, se))
               /\ pc' = "tee_stdout"
               /\ calls' = SetLast("launched", TRUE)
               /\ UNCHANGED <<exit_status, fatal>>
          ELSE /\ Raise("popen", launch, 1)
               /\ calls' = SetLast("outcome", launch)
               /\ fatal' = fatal \cup {<<"launch", call.command>>}
               /\ UNCHANGED p
    /\ UNCHANGED <<setup_vars, call, threads, out, logged, ret, result, run_vars,
                   finish_vars>>

\* except FileNotFoundError: logging.error(...); finish(False)
launch_except ==
    /\ pc = "launch_except"
    /\ CallFinish(FALSE, "launch_except")
    /\ UNCHANGED <<setup_vars, runner_vars, run_vars, finish_calls, emails, banner, body,
                   fatal, exit_status>>

TeePc(s) == IF s = "stdout" THEN "tee_stdout" ELSE "tee_stderr"
JoinPc(s) == IF s = "stdout" THEN "join_stdout" ELSE "join_stderr"

\* snapraid_command draining one stream after the other: the stderr thread is
\* created when the stdout thread has been joined
RunnerNext_Sequential(at) ==
    CASE at = "tee_stdout"  -> "join_stdout"
      [] at = "join_stdout" -> "tee_stderr"
      [] at = "tee_stderr"  -> "join_stderr"
      [] at = "join_stderr" -> "wait"
      [] at = "wait"        -> "check_ret"

\* the statements of snapraid_command after Popen, in order: both tee threads
\* are created and started, then both are joined, then p.wait()
RunnerNext(at) ==
    CASE at = "tee_stdout"  -> "tee_stderr"
      [] at = "tee_stderr"  -> "join_stdout"
      [] at = "join_stdout" -> "join_stderr"
      [] at = "join_stderr" -> "wait"
      [] at = "wait"        -> "check_ret"

\* join written with a zero timeout: it returns whether or not the thread ended
Joined_NoWait(state) == TRUE

\* t.join() returns when the thread has terminated
Joined(state) == state = "done"

\* p.wait() returns when the subprocess has exited
HasExited(proc) == proc.todo = <<>> /\ proc.open = {}

\* threads = [tee_log(p.stdout, out, OUTPUT), tee_log(p.stderr, [], OUTERR)]:
\* tee_log creates the thread of stream s and starts it
tee_log(s) ==
    /\ pc = TeePc(s)
    /\ threads' = [threads EXCEPT ![s] = "running"]
    /\ pc' = RunnerNext(pc)
    /\ UNCHANGED <<setup_vars, call, p, out, logged, ret, result, calls, run_vars, finish_vars,
                   fatal, exit_status>>

\* one iteration of tee_thread on stream s: a line is read, cleaned, logged and
\* appended, or readline returns b"" (the pipe is empty and the subprocess has
\* closed it) and the thread closes the stream and ends; readline blocks while
\* the pipe is empty and still open
tee_thread(s) ==
    /\ threads[s] = "running"
    /\ IF Val(p)[s] # <<>>
       THEN \E line \in {TeeAppended(Head(Val(p)[s]))} :
               /\ logged' = [logged EXCEPT ![s] = Append(@, Strip(line))]
               /\ out' = [out EXCEPT ![s] = Append(@, line)]
               /\ p' = Some([Val(p) EXCEPT ![s] = Tail(@)])
            /\ UNCHANGED threads
       ELSE /\ s \notin Val(p).open
            /\ threads' = [threads EXCEPT ![s] = "done"]
            /\ UNCHANGED <<p, out, logged>>
    /\ UNCHANGED <<pc, setup_vars, call, ret, result, calls, run_vars, finish_vars,
                   fatal, exit_status>>

\* for t in threads: t.join()
join(s) ==
    /\ pc = JoinPc(s)
    /\ Joined(threads[s])
    /\ pc' = RunnerNext(pc)
    /\ UNCHANGED <<setup_vars, runner_vars, run_vars, finish_vars, fatal, exit_status>>

\* the subprocess on bounded pipes: it writes the next line of its script, which
\* blocks while the pipe of that line is full, and when the script is over it
\* closes both streams and exits
subprocess ==
    /\ p # None
    /\ LET proc == Val(p)
       IN  IF proc.todo # <<>>
           THEN LET w == Head(proc.todo)
                IN  /\ Len(proc[w.stream]) < PipeCap
                    /\ p' = Some([proc EXCEPT ![w.stream] = Append(@, w.line),
                                              !.todo = Tail(@)])
           ELSE /\ proc.open # {}
                /\ p' = Some([proc EXCEPT !.open = {}])
    /\ UNCHANGED <<pc, setup_vars, call, threads, out, logged, ret, result, calls, run_vars,
                   finish_vars, fatal, exit_status>>

\* the non-zero exit statuses that are fatal conditions of a run
FatalExit(command, status) ==
    IF status # 0 /\ command \in {"touch", "sync", "scrub"}
    THEN {<<"exit", command>>}
    ELSE {}

\* ret = p.wait()
wait ==
    /\ pc = "wait"
    /\ HasExited(Val(p))
    /\ \E status \in ExitStatuses :
          /\ ret' = Some(status)
          /\ calls' = SetLast("ret", Some(status))
          /\ fatal' = fatal \cup FatalExit(call.command, status)
    /\ pc' = RunnerNext(pc)
    /\ UNCHANGED <<setup_vars, call, p, threads, out, logged, result, run_vars, finish_vars,
                   exit_status>>

\* the test written without ignore_errors
ReturnsOut_ZeroOnly(status, ignore_errors) == status = 0

\* if ret == 0 or ignore_errors
ReturnsOut(status, ignore_errors) == status = 0 \/ ignore_errors

\* subprocess.CalledProcessError(ret, "snapraid " + command)
CalledProcessError(status, command) ==
    [kind |-> "raise", lines |-> <<>>, returncode |-> status,
     cmd |-> <<"snapraid", "SP", command>>]

\* time.sleep(0.3); return out, or raise CalledProcessError
check_ret ==
    /\ pc = "check_ret"
    /\ IF ReturnsOut(Val(ret), call.ignore_errors)
       THEN /\ result' = [NoResult EXCEPT !.kind = "return", !.lines = out["stdout"]]
            /\ calls' = SetLast("outcome", "returned")
            /\ pc' = Continuation(call.command)
            /\ diff_out' = IF call.command = "diff" THEN Some(out["stdout"]) ELSE diff_out
            /\ UNCHANGED exit_status
       ELSE /\ result' = CalledProcessError(Val(ret), call.command)
            /\ calls' = SetLast("outcome", "raised")
            /\ Raise("check_ret", "CalledProcessError", 1)
            /\ UNCHANGED diff_out
    /\ UNCHANGED <<setup_vars, call, p, threads, out, logged, ret, diff_results, finish_vars,
                   fatal>>

----------------------------------------------------------------------------
(* run(), lines 253-313, and the except clauses around it *)

\* touch run whatever the configuration says
TouchEnabled_Always(c) == TRUE

\* if config["snapraid"]["touch"]
TouchEnabled(c) == c.touch

\* diff called like the other commands, without ignore_errors
DiffIgnoreErrors_False == FALSE

\* diff_out = snapraid_command("diff", ignore_errors=True)
DiffIgnoreErrors == TRUE

\* banner; the check of the snapraid config file; the touch phase
run_start ==
    /\ pc = "run"
    /\ \E isfile \in BOOLEAN :
          IF ~isfile
          THEN /\ CallFinish(FALSE, "run")
               /\ fatal' = fatal \cup {<<"setup", "snapraid_config">>}
               /\ UNCHANGED runner_vars
          ELSE /\ IF TouchEnabled(config)
                  THEN Call("touch", FALSE)
                  ELSE pc' = "diff" /\ UNCHANGED runner_vars
               /\ UNCHANGED <<fin, fatal>>
    /\ UNCHANGED <<setup_vars, run_vars, finish_calls, emails, banner, body, exit_status>>

run_diff ==
    /\ pc = "diff"
    /\ Call("diff", DiffIgnoreErrors)
    /\ UNCHANGED <<setup_vars, run_vars, finish_vars, fatal, exit_status>>

\* diff_results = Counter(...) restricted to the four categories
run_classify ==
    /\ pc = "classify"
    /\ diff_results' = Some(Classify(Val(diff_out)))
    /\ pc' = "gate"
    /\ UNCHANGED <<setup_vars, runner_vars, diff_out, finish_vars, fatal, exit_status>>

\* if 0 <= deletethreshold < diff_results["remove"]: finish(False)
run_gate ==
    /\ pc = "gate"
    /\ IF GateAborts(config.deletethreshold, Val(diff_results))
       THEN /\ CallFinish(FALSE, "run")
            /\ fatal' = fatal \cup {<<"gate", "deletethreshold">>}
       ELSE /\ pc' = "sync_check"
            /\ UNCHANGED <<fin, fatal>>
    /\ UNCHANGED <<setup_vars, runner_vars, run_vars, finish_calls, emails, banner, body,
                   exit_status>>

\* no changes: no sync; otherwise try: snapraid_command("sync")
run_sync ==
    /\ pc = "sync_check"
    /\ IF NoChanges(Val(diff_results))
       THEN pc' = "scrub_check" /\ UNCHANGED runner_vars
       ELSE Call("sync", FALSE)
    /\ UNCHANGED <<setup_vars, run_vars, finish_vars, fatal, exit_status>>

\* if config["scrub"]["enabled"]: try: snapraid_command("scrub", ...)
run_scrub ==
    /\ pc = "scrub_check"
    /\ IF config.enabled
       THEN Call("scrub", FALSE)
       ELSE pc' = "all_done" /\ UNCHANGED runner_vars
    /\ UNCHANGED <<setup_vars, run_vars, finish_vars, fatal, exit_status>>

\* logging.info("All done"); finish(True)
run_all_done ==
    /\ pc = "all_done"
    /\ CallFinish(TRUE, "run")
    /\ UNCHANGED <<setup_vars, runner_vars, run_vars, finish_calls, emails, banner, body,
                   fatal, exit_status>>

\* except subprocess.CalledProcessError as e: logging.error(e); finish(False)
\* (around sync and around scrub), and main's
\* except Exception: logging.exception(...); finish(False)
except_clause(h) ==
    /\ pc = HandlerPc(h)
    /\ CallFinish(FALSE, HandlerPc(h))
    /\ UNCHANGED <<setup_vars, runner_vars, run_vars, finish_calls, emails, banner, body,
                   fatal, exit_status>>

----------------------------------------------------------------------------
(* Specification *)

Next ==
    \/ main_args
    \/ main_load_config
    \/ main_setup_logger
    \/ run_start
    \/ run_diff
    \/ run_classify
    \/ run_gate
    \/ run_sync
    \/ run_scrub
    \/ run_all_done
    \/ popen
    \/ launch_except
    \/ \E s \in Streams : tee_log(s)
    \/ \E s \in Streams : tee_thread(s)
    \/ \E s \in Streams : join(s)
    \/ wait
    \/ check_ret
    \/ \E h \in {"sync", "scrub", "main"} : except_clause(h)
    \/ finish

Spec == Init /\ [][Next]_vars

\* the main thread and the tee threads keep being scheduled, and every subprocess
\* closes its streams and exits
FairSpec == Spec /\ WF_vars(Next)

----------------------------------------------------------------------------
(* Specifications of single functions of the program.  Each starts in a state
   of a run in which the function is about to be applied, with its input drawn
   from a set that is richer than the one the runs of Spec go through. *)

\* a configuration file without touch, scrub and gate
PlainFile ==
    [deletethreshold |-> "-1", touch |-> "false", enabled |-> "false", sendon |-> <<>>,
     maxsize |-> ""]

\* a run with configuration file `file` that has started and has not failed
StartedRun(file) ==
    /\ args = [scrub |-> "None"]
    /\ conf_file = file
    /\ config = load_config(file, args)
    /\ started = TRUE
    /\ finish_calls = <<>>
    /\ emails = <<>>
    /\ banner = <<>>
    /\ body = None
    /\ fatal = {}
    /\ exit_status = None

\* such a run inside snapraid_command("diff"), just after Popen started proc
DiffLaunched(proc) ==
    /\ pc = "tee_stdout"
    /\ fin = NoFin
    /\ call = [command |-> "diff", ignore_errors |-> DiffIgnoreErrors]
    /\ p = Some(proc)
    /\ threads = [s \in Streams |-> "none"]
    /\ out = [s \in Streams |-> <<>>]
    /\ logged = [s \in Streams |-> <<>>]
    /\ ret = None
    /\ result = NoResult
    /\ diff_out = None
    /\ diff_results = None
    /\ calls = <<[command |-> "diff", launched |-> TRUE, ret |-> None,
                 outcome |-> "running"]>>

\* such a run when snapraid_command("diff") has returned, the subprocess having
\* written the lines raw to stdout and exited with status 0
DiffReturned(raw) ==
    /\ call = [command |-> "diff", ignore_errors |-> DiffIgnoreErrors]
    /\ p = Some(Process(<<>>, <<>>, <<>>, {}, raw))
    /\ threads = [s \in Streams |-> "done"]
    /\ out = [s \in Streams |-> IF s = "stdout" THEN Cleaned(raw) ELSE <<>>]
    /\ logged = [s \in Streams |-> IF s = "stdout" THEN Logged(raw) ELSE <<>>]
    /\ ret = Some(0)
    /\ result = [NoResult EXCEPT !.kind = "return", !.lines = Cleaned(raw)]
    /\ diff_out = Some(Cleaned(raw))
    /\ calls = <<[command |-> "diff", launched |-> TRUE, ret |-> Some(0),
                 outcome |-> "returned"]>>

(* tee_thread and the classification of the diff output, on any line *)

\* lines a subprocess can write, as read by readline without the newline: with
\* blanks or tabulators between the words, with white space around them, with
\* segments ended by carriage returns, a bare word, an empty line
TeeLines ==
    {<<"add", "SP", "x">>,
     <<"remove", "SP", "x">>,
     <<"move", "TAB", "x">>,
     <<"update">>,
     <<>>,
     <<"add", "x">>,
     <<"SP", "x", "SP", "add", "SP", "CR">>,
     <<"x", "CR", "update", "SP", "x", "SP">>,
     <<"x", "CR", "SP", "add", "SP", "x">>}

TeeOutputs == SeqsUpTo(TeeLines, MaxLines)

\* both tee threads of a diff whose subprocess wrote raw to stdout
TeeInit ==
    /\ StartedRun(PlainFile)
    /\ email_log = <<>>
    /\ \E raw \in TeeOutputs, se \in OtherOutputs : DiffLaunched(Written(raw, se))

TeeNext ==
    \/ \E s \in Streams : tee_log(s)
    \/ \E s \in Streams : tee_thread(s)
    \/ \E s \in Streams : join(s)

TeeSpec == TeeInit /\ [][TeeNext]_vars

\* the classification of what the stdout tee captured of raw
ClassifyInit ==
    /\ StartedRun(PlainFile)
    /\ email_log = <<>>
    /\ \E raw \in TeeOutputs : DiffReturned(raw)
    /\ pc = "classify"
    /\ diff_results = None
    /\ fin = NoFin

ClassifyNext == run_classify

ClassifySpec == ClassifyInit /\ [][ClassifyNext]_vars

(* send_email on logs around the size limit *)

\* a log of n characters in lines of len characters, the newline included
Transcript(n, len) == [i \in 1..n |-> IF i % len = 0 THEN "NL" ELSE "c"]

\* lengths of the log around the limits of 1 KiB and 2 KiB
LogLengths == {0, 600, 1024, 1025, 1536, 2048, 2049, 2560, 3072}

\* lengths of the lines: 64 and 256 divide half a limit, 100 does not
LineLengths == {64, 100, 256}

Transcripts == {Transcript(n, len) : n \in LogLengths, len \in LineLengths}

\* configuration files that ask for a notification on both outcomes
EmailFiles ==
    {[PlainFile EXCEPT !.sendon = <<"success", ",", "error">>, !.maxsize = raw] :
        raw \in RawMaxsizes}

\* a run that found nothing to do, with scrub disabled, has called finish(True);
\* the email log handler has collected some text
EmailInit ==
    /\ \E file \in EmailFiles : StartedRun(file)
    /\ email_log \in Transcripts
    /\ DiffReturned(<<>>)
    /\ diff_results = Some(Classify(<<>>))
    /\ pc = "finish"
    /\ fin = [is_success |-> TRUE, site |-> "run"]

EmailNext == finish

EmailSpec == EmailInit /\ [][EmailNext]_vars

(* The drain of a subprocess that writes to bounded pipes *)

\* what a subprocess can write in one step: a line to stdout or a line to stderr
Writes ==
    {[stream |-> "stdout", line |-> <<"add", "SP", "x">>],
     [stream |-> "stderr", line |-> <<"x">>]}

\* the scripts of the subprocess: every order of writes to the two streams, long
\* enough to fill a pipe and block on it before the other stream is written
DrainScripts == SeqsUpTo(Writes, PipeCap + 2)

IsStdout(w) == w.stream = "stdout"

\* the stdout lines of a script, in order
StdoutOf(script) ==
    LET ws == SelectSeq(script, IsStdout)
    IN  [i \in 1..Len(ws) |-> ws[i].line]

DrainInit ==
    /\ StartedRun(PlainFile)
    /\ email_log = <<>>
    /\ \E script \in DrainScripts :
          DiffLaunched(Process(<<>>, <<>>, script, Streams, StdoutOf(script)))

DrainNext ==
    \/ subprocess
    \/ \E s \in Streams : tee_log(s)
    \/ \E s \in Streams : tee_thread(s)
    \/ \E s \in Streams : join(s)
    \/ wait
    \/ check_ret

\* the subprocess, the tee threads and the main thread keep being scheduled
DrainSpec == DrainInit /\ [][DrainNext]_vars /\ WF_vars(DrainNext)

----------------------------------------------------------------------------
(* Vocabulary of the properties *)

Exited == pc = "exited"

Commands == {"touch", "diff", "sync", "scrub"}

\* number of snapraid_command calls for command
Invocations(command) == Cardinality({i \in 1..Len(calls) : calls[i].command = command})

Invoked(command) == Invocations(command) > 0

\* the record of the only call of command
CallOf(command) == calls[CHOOSE i \in 1..Len(calls) : calls[i].command = command]

LastCall == calls[Len(calls)]

\* position of a phase in the fixed order
Rank(command) ==
    CASE command = "touch" -> 1
      [] command = "diff"  -> 2
      [] command = "sync"  -> 3
      [] command = "scrub" -> 4

Removed == Val(diff_results)["remove"]


\* number of lines whose text before the first blank is the word
RECURSIVE Leading(_, _)
Leading(lines, word) ==
    IF lines = <<>> THEN 0
    ELSE (IF SplitFirst(Head(lines), "SP") = <<word>> THEN 1 ELSE 0)
         + Leading(Tail(lines), word)

LaunchFailures == {"FileNotFoundError", "PermissionError"}

\* the call of command is over: it returned or raised
Over(command) == Invoked(command) /\ CallOf(command).outcome \in {"returned", "raised"}

SnapraidConfigMissing == <<"setup", "snapraid_config">> \in fatal

GateAborted == <<"gate", "deletethreshold">> \in fatal

\* the counts are available: run() is past the classification of the diff output
Classified == diff_results # None

----------------------------------------------------------------------------
(* C1 *)

\* C1: once run() has started, finish is invoked exactly once per run: never more
\* than once, not before run() starts, once when the process has exited, and every
\* started run does exit.  Its argument is TRUE iff no fatal condition occurred
\* in run() (missing snapraid config file, launch failure, non-zero exit of touch,
\* sync or scrub, delete-threshold abort), whichever except clause, main's
\* catch-all included, the failure went through.
C1_FinishOnceInv ==
    /\ Len(finish_calls) <= 1
    /\ ~started => finish_calls = <<>>
    /\ pc = "finish" => finish_calls = <<>> /\ fin.is_success = (fatal = {})
    /\ pc = "main_except" => finish_calls = <<>> /\ fatal # {}
    /\ finish_calls # <<>> => Exited /\ finish_calls[1] = (fatal = {})
    /\ started /\ Exited => Len(finish_calls) = 1

C1_FinishExactlyOnce == []C1_FinishOnceInv /\ (started ~> (Exited /\ Len(finish_calls) = 1))

\* a run whose sync could not be started (PermissionError, which only main's
\* catch-all catches) has called finish(False) once and exited
C1_Witness ==
    /\ Exited
    /\ finish_calls = <<FALSE>>
    /\ calls # <<>>
    /\ LastCall.command = "sync" /\ LastCall.outcome = "PermissionError"

----------------------------------------------------------------------------
(* C2 *)

\* C2: the exit status is 0 exactly when finish was called with success, 1 exactly
\* when it was called with failure, and 2 only for set-up errors before run()
\* starts, where no phase was invoked and finish was not called.
C2_ExitStatus ==
    /\ Exited <=> exit_status # None
    /\ Exited =>
          /\ exit_status \in {Some(0), Some(1), Some(2)}
          /\ exit_status = Some(0) <=> finish_calls = <<TRUE>>
          /\ exit_status = Some(1) <=> finish_calls = <<FALSE>>
          /\ exit_status = Some(2) <=> finish_calls = <<>>
          /\ exit_status = Some(2) => ~started /\ calls = <<>>

\* a run aborted by the delete gate alone has exited with status 1
C2_Witness == Exited /\ exit_status = Some(1) /\ fatal = {<<"gate", "deletethreshold">>}

----------------------------------------------------------------------------
(* C3 *)

\* C3: the phases invoked in a run appear in the order touch, diff, sync, scrub:
\* the ranks of the invoked commands strictly increase, so that no phase is
\* invoked twice (no retry) and none after a later one.
C3_PhaseOrder ==
    \A i, j \in 1..Len(calls) : i < j => Rank(calls[i].command) < Rank(calls[j].command)

\* a run that invoked all four phases
C3_Witness == Exited /\ Len(calls) = 4

----------------------------------------------------------------------------
(* C4 *)

\* C4: when the delete threshold is non-negative and the remove count exceeds it,
\* the run aborts as failed right after diff: it is at the gate or in finish(False)
\* or has exited with status 1 after exactly one finish(False), and neither sync
\* nor scrub is invoked.
C4_DeleteGate ==
    (Classified /\ 0 <= config.deletethreshold /\ config.deletethreshold < Removed) =>
        /\ pc \in {"gate", "finish", "exited"}
        /\ pc = "finish" => ~fin.is_success
        /\ Exited => finish_calls = <<FALSE>> /\ exit_status = Some(1)
        /\ ~Invoked("sync") /\ ~Invoked("scrub")
        /\ LastCall.command = "diff"

\* threshold 1 and two removed files: aborted
C4_Witness ==
    /\ Exited /\ Classified
    /\ conf_file.deletethreshold = "1" /\ Removed = 2

----------------------------------------------------------------------------
(* C5 *)

\* C5: a delete threshold that is negative or absent from the configuration
\* disables the delete gate: the run never aborts on the basis of the remove count.
C5_DisabledGate ==
    (config.loaded /\ conf_file.deletethreshold \in {"", "-1"}) => ~GateAborted

\* C5, for a negative threshold only
C5_NegativeDisables ==
    (config.loaded /\ conf_file.deletethreshold = "-1") => ~GateAborted

----------------------------------------------------------------------------
(* C6 *)

\* C6 as stated: with all-zero counts sync is never invoked; with any nonzero count
\* a finished run has invoked sync exactly once.
C6_SyncIffChanges ==
    Classified =>
        /\ NoChanges(Val(diff_results)) => ~Invoked("sync")
        /\ (Exited /\ ~NoChanges(Val(diff_results))) => Invocations("sync") = 1

\* C6, amended: with all-zero counts sync is never invoked; with a nonzero count
\* sync is invoked exactly once as soon as the run is past the gate, unless the
\* delete gate aborts the run (0 <= threshold < remove), and then it is never
\* invoked.
C6_SyncIffChangesPastGate ==
    Classified =>
        LET counts == Val(diff_results)
            sum == counts["add"] + counts["remove"] + counts["move"] + counts["update"]
            aborts == 0 <= config.deletethreshold /\ config.deletethreshold < counts["remove"]
        IN  /\ sum = 0 => ~Invoked("sync")
            /\ aborts => ~Invoked("sync")
            /\ (sum # 0 /\ ~aborts /\ pc \notin {"gate", "sync_check"}) =>
                   Invocations("sync") = 1

\* one added file and nothing removed: sync was invoked, once
C6_Witness ==
    /\ Exited /\ Classified
    /\ Val(diff_results)["add"] = 1 /\ Removed = 0
    /\ Invocations("sync") = 1

----------------------------------------------------------------------------
(* C7 *)

----------------------------------------------------------------------------
(* C8 *)

\* C8: if the executable cannot be started for a phase, diff included, the run
\* ends through finish(False): no tee is attached and no exit status inspected in
\* that call, no later phase is invoked, and the exit status is 1.
C8_LaunchFailure ==
    \A i \in 1..Len(calls) :
        calls[i].outcome \in LaunchFailures =>
            /\ i = Len(calls)
            /\ ~calls[i].launched /\ calls[i].ret = None
            /\ p = None /\ ret = None /\ \A s \in Streams : threads[s] = "none"
            /\ pc \in {"launch_except", "main_except", "finish", "exited"}
            /\ pc = "finish" => ~fin.is_success
            /\ Exited => finish_calls = <<FALSE>> /\ exit_status = Some(1)

\* diff, called with ignore_errors=True, could not be started
C8_Witness ==
    /\ Exited /\ calls # <<>>
    /\ LastCall.command = "diff" /\ LastCall.outcome \in LaunchFailures
    /\ call.ignore_errors

----------------------------------------------------------------------------
(* C9 *)

\* the run is past the check of the snapraid config file and past touch
PastTouch ==
    /\ started /\ pc \notin {"run", "diff"}
    /\ ~SnapraidConfigMissing
    /\ Invoked("touch") => CallOf("touch").outcome = "returned"

\* the run is ending as failed
Failing ==
    \/ pc \in {"launch_except", "sync_except", "scrub_except", "main_except"}
    \/ pc = "finish" /\ ~fin.is_success
    \/ finish_calls # <<>> /\ ~finish_calls[1]

\* C9: diff is invoked in every run that gets past touch and the check of the
\* snapraid config file, and whatever the exit status of a launched diff the call
\* returns, the captured lines are classified, and while diff is the last phase
\* invoked the run fails exactly when it is past the gate and the remove count of
\* those lines exceeds a non-negative threshold.
C9_DiffIgnorable ==
    /\ PastTouch => Invoked("diff")
    /\ (Invoked("diff") /\ CallOf("diff").ret # None /\ pc # "check_ret") =>
          /\ CallOf("diff").outcome = "returned"
          /\ diff_out # None
          /\ LastCall.command = "diff" =>
                /\ diff_out = Some(Cleaned(Val(p).wrote))
                /\ Failing <=>
                      /\ pc \notin {"classify", "gate"}
                      /\ 0 <= config.deletethreshold
                      /\ config.deletethreshold < Leading(Val(diff_out), "remove")
    /\ Classified => diff_results = Some(Classify(Val(diff_out)))

\* diff exited with status 3 and the run went on to finish(True)
C9_Witness ==
    /\ Exited /\ finish_calls = <<TRUE>>
    /\ CallOf("diff").ret = Some(3)

----------------------------------------------------------------------------
(* C10 *)

\* the touch call is over and its subprocess exited non-zero
TouchFailed == Invoked("touch") /\ CallOf("touch").ret \notin {None, Some(0)} /\ pc # "check_ret"

\* touch comes before diff, and a non-zero exit of touch aborts the run as failed
TouchFirstAndFatal ==
    /\ Invoked("touch") => calls[1].command = "touch"
    /\ TouchFailed =>
          /\ Len(calls) = 1
          /\ pc \in {"main_except", "finish", "exited"}
          /\ pc = "finish" => ~fin.is_success
          /\ Exited => finish_calls = <<FALSE>>

\* C10 as stated: a finished run has invoked touch iff the touch option is true;
\* touch comes before diff; a non-zero exit of touch aborts the run as failed.
C10_TouchIffConfigured ==
    /\ (started /\ Exited) => (Invoked("touch") <=> config.touch)
    /\ TouchFirstAndFatal

\* C10, amended: touch is invoked only if the touch option is true, and in every
\* run that is past the check of the snapraid config file it is invoked iff the
\* option is true; touch comes before diff; a non-zero exit of touch aborts the run
\* as failed, with finish(False) and no diff, sync or scrub.
C10_TouchIffConfiguredAndConfigFound ==
    /\ Invoked("touch") => config.touch
    /\ (started /\ pc # "run" /\ ~SnapraidConfigMissing) =>
          (Invoked("touch") <=> config.touch)
    /\ TouchFirstAndFatal

\* touch exited with status 3: the run failed without invoking diff
C10_Witness ==
    /\ Exited
    /\ Len(calls) = 1 /\ calls[1].command = "touch" /\ calls[1].ret = Some(3)

----------------------------------------------------------------------------
(* C11 *)

\* the scrub call is over and its subprocess exited non-zero
ScrubFailed ==
    Invoked("scrub") /\ CallOf("scrub").ret \notin {None, Some(0)} /\ pc # "check_ret"

\* C11: scrub is invoked only if the configuration file enables it and --no-scrub
\* was not given, and only in a run that has not failed: when it is invoked no
\* fatal condition has occurred and finish has not been called, and any fatal
\* condition of a run that invoked scrub is scrub's own.  A non-zero exit of scrub
\* aborts the run with finish(False), and finish(True) is never called.
C11_ScrubGuarded ==
    /\ Invoked("scrub") =>
          /\ args.scrub = "None"
          /\ conf_file.enabled \in {"true", "True"}
          /\ fatal \subseteq {<<"launch", "scrub">>, <<"exit", "scrub">>}
          /\ CallOf("scrub").ret = None /\ pc \in {"popen", "tee_stdout"} =>
                fatal = {} /\ finish_calls = <<>>
    /\ ScrubFailed =>
          /\ pc \in {"scrub_except", "finish", "exited"}
          /\ pc = "finish" => ~fin.is_success
          /\ \A i \in 1..Len(finish_calls) : ~finish_calls[i]
          /\ Exited => finish_calls = <<FALSE>> /\ exit_status = Some(1)

\* scrub was enabled, ran after a sync that succeeded, exited with status 3 and
\* the run ended with finish(False)
C11_Witness ==
    /\ Exited /\ finish_calls = <<FALSE>>
    /\ Invoked("sync") /\ Invoked("scrub")
    /\ CallOf("scrub").ret = Some(3)

----------------------------------------------------------------------------
(* C12 *)

\* C12: a notification that fails does not change how the run ends.  Whatever
\* send_email did (sent the mail, returned because no smtp host is set, raised),
\* finish was called once, the process has exited, the banner logged is the one of
\* finish's argument and the exit status is 0 for success and 1 for failure; a
\* notification that was not sent left an error in the log and nothing else.
C12_EmailFailureHarmless ==
    /\ Len(banner) <= 1
    /\ finish_calls # <<>> =>
          /\ Exited /\ Len(finish_calls) = 1
          /\ finish_calls[1] =>
                /\ banner = <<[level |-> "INFO", text |-> "Run finished successfully."]>>
                /\ exit_status = Some(0)
          /\ ~finish_calls[1] =>
                /\ banner = <<[level |-> "ERROR", text |-> "Run failed!"]>>
                /\ exit_status = Some(1)
    /\ \A i \in 1..Len(emails) : emails[i].outcome # "sent" => emails[i].error_logged

\* the notification of a successful run raised, and the run still ended with the
\* success banner and exit status 0
C12_Witness ==
    /\ Exited /\ exit_status = Some(0)
    /\ emails = <<[success |-> TRUE, outcome |-> "SMTPException", error_logged |-> TRUE]>>
    /\ banner # <<>> /\ banner[1].level = "INFO"

----------------------------------------------------------------------------
(* C13 *)

\* the configuration file names the trigger of outcome s
Triggered(s) ==
    \E i \in 1..Len(conf_file.sendon) :
        conf_file.sendon[i] = (IF s THEN "success" ELSE "error")

\* C13: a notification is attempted in finish(s) iff the configured triggers
\* include the one of outcome s, each trigger on its own; there is at most one
\* attempt per run, it is for the outcome finish was called with, and it has been
\* made when the process has exited.  Without a call of finish there is none.
C13_NotifyIffTriggered ==
    /\ Len(emails) <= 1
    /\ finish_calls = <<>> => emails = <<>>
    /\ finish_calls # <<>> =>
          /\ Exited
          /\ emails # <<>> <=> Triggered(finish_calls[1])
          /\ emails # <<>> => emails[1].success = finish_calls[1]

\* only the error trigger is configured: a failed run attempted its notification
C13_Witness ==
    /\ Exited /\ finish_calls = <<FALSE>>
    /\ conf_file.sendon = <<"error">>
    /\ Len(emails) = 1 /\ ~emails[1].success

\* only the error trigger is configured: a successful run attempted none
C13_WitnessUntriggered ==
    /\ Exited /\ finish_calls = <<TRUE>>
    /\ conf_file.sendon = <<"error">>
    /\ emails = <<>>

----------------------------------------------------------------------------
(* C14 *)

\* number of newlines in a text, which is the number of lines that end in it
Newlines(text) == Cardinality({i \in 1..Len(text) : text[i] = "NL"})

\* the body after its introduction
LogInBody == Tail(Val(body))

\* C14: the log in the body of the message.  A log within the limit (maxsize KiB
\* of characters), or any log when no limit is configured (maxsize 0, which an
\* absent option gives too), is sent unchanged.  A log over the limit is cut in the
\* middle: after a note come the first limit/2 characters, a marker and the last
\* limit/2 characters, so that head and tail have the same size, and the number
\* the marker states is the number of lines that end in the text left out
\* between head and tail.  When all lines have the same length and half the limit
\* is a whole number of lines, head and tail have that many lines each and the
\* marker states all other lines (10 lines of 256 characters under a limit of
\* 1 KiB: 2 head lines, 6 lines removed, 2 tail lines).
C14_TruncateMiddle ==
    body # None =>
        LET log   == email_log
            limit == config.maxsize * 1024
            half  == limit \div 2
            parts == LogInBody
        IN  /\ (config.maxsize = 0 \/ Len(log) <= limit) =>
                  parts = <<[kind |-> "text", chars |-> log, cut_lines |-> 0]>>
            /\ (config.maxsize > 0 /\ Len(log) > limit) =>
                  /\ Len(parts) = 4
                  /\ parts[1].kind = "note" /\ parts[2].kind = "text"
                  /\ parts[3].kind = "marker" /\ parts[4].kind = "text"
                  /\ Len(parts[2].chars) = half /\ Len(parts[4].chars) = half
                  /\ parts[2].chars = SubSeq(log, 1, half)
                  /\ parts[4].chars = SubSeq(log, Len(log) - half + 1, Len(log))
                  /\ parts[3].cut_lines = Newlines(SubSeq(log, half + 1, Len(log) - half))
                  /\ parts[3].cut_lines + Newlines(parts[2].chars) + Newlines(parts[4].chars)
                        = Newlines(log)
                  /\ \A len \in LineLengths :
                        (log = Transcript(Len(log), len) /\ half % len = 0
                            /\ Len(log) % len = 0) =>
                            /\ Newlines(parts[2].chars) = half \div len
                            /\ Newlines(parts[4].chars) = half \div len
                            /\ parts[3].cut_lines = (Len(log) \div len) - (limit \div len)

\* a log of 10 lines of 256 characters under a limit of 1 KiB was shortened to
\* 2 head lines, a marker stating 6 lines, and 2 tail lines
C14_Witness ==
    /\ body # None /\ Exited
    /\ config.maxsize = 1
    /\ email_log = Transcript(2560, 256)
    /\ Len(LogInBody) = 4
    /\ Newlines(LogInBody[2].chars) = 2
    /\ LogInBody[3].cut_lines = 6
    /\ Newlines(LogInBody[4].chars) = 2

\* a log of exactly the limit was sent unchanged
C14_WitnessWithin ==
    /\ body # None /\ Exited
    /\ config.maxsize = 1 /\ Len(email_log) = 1024
    /\ Len(LogInBody) = 1 /\ LogInBody[1].chars = email_log

----------------------------------------------------------------------------
(* C15 *)

\* the line is the word alone, or the word followed by a blank
LeadsWithBlank(line, word) ==
    /\ line # <<>> /\ line[1] = word
    /\ Len(line) = 1 \/ line[2] = "SP"

\* the first white-space-delimited token of the line is the word
LeadsWithWhitespace(line, word) ==
    LET l == LStrip(line)
    IN  /\ l # <<>> /\ l[1] = word
        /\ Len(l) = 1 \/ l[2] \in Whitespace

NonEmpty(lines) == Cardinality({i \in 1..Len(lines) : lines[i] # <<>>})

\* the four keys are present and the counts sum to at most the number of
\* non-empty captured lines
KeysAndSum ==
    LET counts == Val(diff_results)
    IN  /\ DOMAIN counts = {"add", "remove", "move", "update"}
        /\ \A c \in DOMAIN counts : counts[c] \in 0..Len(Val(diff_out))
        /\ counts["add"] + counts["remove"] + counts["move"] + counts["update"]
              <= NonEmpty(Val(diff_out))

----------------------------------------------------------------------------
(* C16 *)

\* the stdout lines the tee thread has read so far
ReadSoFar == SubSeq(Val(p).wrote, 1, Len(Val(p).wrote) - Len(Val(p).stdout))

\* the text of a line after its last carriage return, white space removed around
\* the line and around that text
AfterLastCR(raw) == Strip(SplitLast(Strip(raw), "CR"))

\* one accumulator entry per line read, in order; what is logged is the text
\* after the last carriage return, and what is appended is that text up to white
\* space in front of it
C16_OneEntryPerLine ==
    p # None =>
        /\ Len(out["stdout"]) = Len(ReadSoFar)
        /\ Len(logged["stdout"]) = Len(ReadSoFar)
        /\ \A i \in 1..Len(ReadSoFar) :
              /\ logged["stdout"][i] = AfterLastCR(ReadSoFar[i])
              /\ Strip(out["stdout"][i]) = AfterLastCR(ReadSoFar[i])

\* C16 as stated: for every line read, the text logged and the text appended to
\* the accumulator are the same cleaned line, the text after the last carriage
\* return; there is one accumulator entry per line read, in order.
C16_SameCleanedLine ==
    p # None =>
        /\ Len(out["stdout"]) = Len(ReadSoFar)
        /\ \A i \in 1..Len(ReadSoFar) :
              /\ logged["stdout"][i] = out["stdout"][i]
              /\ out["stdout"][i] = AfterLastCR(ReadSoFar[i])

----------------------------------------------------------------------------
(* C17 *)

TeesDone == \A s \in Streams : threads[s] = "done"

\* C17: in every interleaving of the main thread and the two tee threads,
\* snapraid_command calls p.wait(), inspects the exit status and returns or raises
\* only when both tee threads have terminated and have read their pipes to the end.
\* A tee thread runs only while the main thread is between its creation and the
\* end of the joins, where the main thread does not read the accumulator; what is
\* returned is the complete cleaned stdout; only the last call can be running (no
\* two phases at once), and a call is entered with no tee thread running.
C17_JoinBeforeReturn ==
    /\ pc \in {"wait", "check_ret"} =>
          TeesDone /\ Val(p).stdout = <<>> /\ Val(p).stderr = <<>>
    /\ ret # None => TeesDone
    /\ result.kind # "none" => TeesDone
    /\ result.kind = "return" =>
          result.lines = out["stdout"] /\ result.lines = Cleaned(Val(p).wrote)
    /\ \A s \in Streams :
          threads[s] = "running" =>
              /\ pc \in {"tee_stderr", "join_stdout", "join_stderr"}
              /\ LastCall.outcome = "running"
    /\ \A i \in 1..(Len(calls) - 1) : calls[i].outcome # "running"
    /\ pc = "popen" => \A s \in Streams : threads[s] = "none"

\* both tee threads of diff have read two stdout lines and one stderr line and
\* have ended, and the main thread is about to inspect the exit status
C17_Witness ==
    /\ pc = "check_ret" /\ call.command = "diff"
    /\ TeesDone
    /\ Len(out["stdout"]) = 2 /\ Len(out["stderr"]) = 1

----------------------------------------------------------------------------
(* C18 *)

\* the subprocess is blocked: the pipe of the line it has to write is full
SubprocessBlocked ==
    /\ p # None /\ Val(p).todo # <<>>
    /\ Len(Val(p)[Head(Val(p).todo).stream]) >= PipeCap

\* snapraid_command has returned: both tee threads reached end of file and were
\* joined, the subprocess has written all its lines and exited, and all its
\* stdout was captured
DrainReturned ==
    /\ pc = "classify"
    /\ TeesDone
    /\ HasExited(Val(p)) /\ Val(p).stdout = <<>> /\ Val(p).stderr = <<>>
    /\ diff_out = Some(Cleaned(Val(p).wrote))

\* C18: with bounded pipes and any order of the writes to the two streams, under
\* fair scheduling the subprocess never stays blocked on a full pipe, both tee
\* threads reach end of file, both joins complete and the call returns.
C18_DrainTerminates ==
    /\ <>DrainReturned
    /\ SubprocessBlocked ~> ~SubprocessBlocked

\* the subprocess has filled the stderr pipe and is blocked on its next stderr
\* line before writing anything to stdout, while the stdout thread waits on an
\* empty pipe and the main thread waits in the join of the stdout thread
C18_Witness ==
    /\ SubprocessBlocked
    /\ Head(Val(p).todo).stream = "stderr"
    /\ Val(p).stdout = <<>> /\ out["stdout"] = <<>>
    /\ \E i \in 1..Len(Val(p).todo) : Val(p).todo[i].stream = "stdout"
    /\ pc = "join_stdout"
    /\ threads = [s \in Streams |-> "running"]

----------------------------------------------------------------------------
(* C19 *)

\* the diff output is classified and no captured line leads with a category
ZeroCounts == Classified /\ \A c \in Categories : Leading(Val(diff_out), c) = 0

\* the configuration file enables scrub and --no-scrub was not given
ScrubOn == args.scrub = "None" /\ conf_file.enabled \in {"true", "True"}

\* run() has not yet decided about scrub
BeforeScrubBlock == pc \in {"gate", "sync_check", "scrub_check"}

\* C19: skipping sync is not a failure.  With all counts zero sync is never
\* invoked.  If scrub is enabled it is invoked exactly once, after the gate and the
\* sync decision, and a run whose scrub exited zero ends with finish(True) and
\* exit status 0.  If scrub is disabled neither sync nor scrub is invoked and
\* the run ends with finish(True) and exit status 0.
C19_SkipSyncNotFailure ==
    ZeroCounts =>
        /\ ~Invoked("sync")
        /\ ScrubOn =>
              /\ BeforeScrubBlock => ~Invoked("scrub")
              /\ ~BeforeScrubBlock => Invocations("scrub") = 1 /\ LastCall.command = "scrub"
              /\ (Exited /\ CallOf("scrub").ret = Some(0)) =>
                    finish_calls = <<TRUE>> /\ exit_status = Some(0)
        /\ ~ScrubOn =>
              /\ ~Invoked("scrub")
              /\ Exited => finish_calls = <<TRUE>> /\ exit_status = Some(0)

\* diff printed one line without a category, sync was skipped, scrub was invoked
\* and exited zero, and the run succeeded
C19_Witness ==
    /\ Exited /\ finish_calls = <<TRUE>>
    /\ ZeroCounts /\ Len(Val(diff_out)) = 1
    /\ ~Invoked("sync") /\ Invoked("scrub")
    /\ CallOf("scrub").ret = Some(0)

\* scrub disabled: the run succeeded with diff as its last command
C19_WitnessDisabled ==
    /\ Exited /\ finish_calls = <<TRUE>>
    /\ ZeroCounts /\ ~ScrubOn
    /\ calls # <<>> /\ LastCall.command = "diff"

----------------------------------------------------------------------------
(* C20 *)

\* diff was launched, exited non-zero, and none of its lines, as the stdout tee
\* captured them, leads with a category
DiffFailedQuietly ==
    /\ Over("diff") /\ CallOf("diff").launched
    /\ CallOf("diff").ret \notin {None, Some(0)}
    /\ LET captured == IF diff_out # None THEN Val(diff_out) ELSE Cleaned(Val(p).wrote)
       IN  \A c \in Categories : Leading(captured, c) = 0

\* C20: a diff that launches, exits non-zero and prints no line leading with a
\* category is taken for "no changes": sync is never invoked, and the run ends with
\* finish(True) and exit status 0 if scrub is disabled or exits zero.  Such a run
\* ends with exit status 1 only through scrub (its launch or its exit status).
C20_FailingDiffIsNoChange ==
    DiffFailedQuietly =>
        /\ ~Invoked("sync")
        /\ exit_status # Some(2)
        /\ (Exited /\ (~ScrubOn \/ (Invoked("scrub") /\ CallOf("scrub").ret = Some(0)))) =>
              finish_calls = <<TRUE>> /\ exit_status = Some(0)
        /\ exit_status = Some(1) =>
              /\ ScrubOn /\ Invoked("scrub")
              /\ fatal # {}
              /\ fatal \subseteq {<<"launch", "scrub">>, <<"exit", "scrub">>}

\* diff exited with status 3 and printed one line without a category; scrub is
\* disabled and the run ended with exit status 0 after diff alone
C20_Witness ==
    /\ Exited /\ exit_status = Some(0)
    /\ calls # <<>> /\ DiffFailedQuietly
    /\ diff_out # None /\ Len(Val(diff_out)) = 1
    /\ CallOf("diff").ret = Some(3)
    /\ ~ScrubOn /\ LastCall.command = "diff"

====
